---- MODULE Spec2Model ----
(***************************************************************************)
(* Reservation core of the booking backend: the booking table, the         *)
(* create / update / cancel handlers of routes/bookings.py together with   *)
(* the BookingService methods they call, and the conflict query.           *)
(*                                                                         *)
(* Instants are natural numbers.  A nullable column or an Optional field   *)
(* is a set with at most one element: {} is None / SQL NULL, {v} is v.     *)
(***************************************************************************)
EXTENDS Integers, FiniteSets, Sequences, TLC

\* ------------------------------------------------------------------ bounds
\* Instants range over 0..MaxTime.
MaxTime == 3
\* The booking_id sequence stops handing out ids after MaxBookings.
MaxBookings == 2

Times == 0..MaxTime

\* ------------------------------------------------------------- Optional[T]
None == {}
Some(v) == {v}
Opt(S) == {None} \cup {Some(v) : v \in S}
Val(o) == CHOOSE v \in o : TRUE

\* ---------------------------------------------------------------- catalog
\* Rows of the read-only tables "type", "room", "desk" and "users".
TypeTable ==
    { [type_id |-> 1, approval |-> TRUE],
      [type_id |-> 2, approval |-> FALSE] }

RoomTable ==
    { [room_id |-> 1, type_id |-> 1],
      [room_id |-> 2, type_id |-> 2] }

DeskTable == { [desk_id |-> 1] }

UserTable ==
    { [user_id |-> 1, is_admin |-> FALSE],
      [user_id |-> 2, is_admin |-> FALSE],
      [user_id |-> 3, is_admin |-> TRUE] }

\* The resource_type enum of the request schema.
BookingResourceType == {"desk", "room"}

\* HTTP outcomes of the handlers.
HTTP_200_OK == "200"
HTTP_201_CREATED == "201"
HTTP_204_NO_CONTENT == "204"
HTTP_400_BAD_REQUEST == "400"
HTTP_403_FORBIDDEN == "403"
HTTP_404_NOT_FOUND == "404"
HTTP_409_CONFLICT == "409"
HTTP_422_UNPROCESSABLE == "422"
HTTP_500_INTERNAL_SERVER_ERROR == "500"

VARIABLES
    bookings,   \* rows of table "booking"
    next_id,    \* next value of the booking_id sequence
    now,        \* the clock read by datetime.now
    last,       \* the last request handled and its response
    workers,    \* the requests in flight, one per concurrent worker
    availability \* the last response of the availability endpoint

vars == <<bookings, next_id, now, last, workers, availability>>

\* ---------------------------------------------------------- booking model
\* Booking.resource_type / resource_id of a stored row.
resource_type(b) == IF b.desk_id # None THEN "desk" ELSE "room"
resource_id(b) == IF b.desk_id # None THEN Val(b.desk_id) ELSE Val(b.room_id)

\* Booking.is_active / is_upcoming / is_past, read at instant clock.
is_active(b, clock) ==
    b.start_time <= clock /\ clock <= b.end_time /\ ~b.pending

\* Faulty variant: a booking that starts now is still upcoming.
is_upcoming_inclusive(b, clock) == b.start_time >= clock /\ ~b.pending

is_upcoming(b, clock) == b.start_time > clock /\ ~b.pending

is_past(b, clock) == b.end_time < clock

\* ------------------------------------------------------- service: lookups
get_booking_by_id(B, booking_id) == {b \in B : b.booking_id = booking_id}

\* Faulty variant: the lookup returns a desk whatever the id.
get_desk_by_id_any(desk_id) == {d \in DeskTable : TRUE}

get_desk_by_id(desk_id) == {d \in DeskTable : d.desk_id = desk_id}

get_room_by_id(room_id) == {r \in RoomTable : r.room_id = room_id}

\* Room.room_type relationship.
room_type(room) == {t \in TypeTable : t.type_id = room.type_id}

\* The "Match resource" clause of the queries: a NULL column matches nothing.
MatchResource(b, rtype, rid) ==
    IF rtype = "desk" THEN b.desk_id = Some(rid) ELSE b.room_id = Some(rid)

\* ------------------------------------------------- service: conflict query
\* Faulty variant: the boundary instants count as inside the candidate
\* interval, so adjacent bookings collide.
check_booking_conflict_inclusive(B, rtype, rid, start_time, end_time, exclude_booking_id) ==
    \E b \in B :
        /\ \/ (b.start_time >= start_time /\ b.start_time <= end_time)
           \/ (b.end_time >= start_time /\ b.end_time <= end_time)
           \/ (b.start_time <= start_time /\ b.end_time >= end_time)
        /\ MatchResource(b, rtype, rid)

\* Faulty variant: the "completely encompasses" branch is missing.
check_booking_conflict_two_branches(B, rtype, rid, start_time, end_time, exclude_booking_id) ==
    \E b \in B :
        /\ \/ (b.start_time >= start_time /\ b.start_time < end_time)
           \/ (b.end_time > start_time /\ b.end_time <= end_time)
        /\ MatchResource(b, rtype, rid)

check_booking_conflict(B, rtype, rid, start_time, end_time, exclude_booking_id) ==
    LET hit(b) ==
            /\ \/ (b.start_time >= start_time /\ b.start_time < end_time)
               \/ (b.end_time > start_time /\ b.end_time <= end_time)
               \/ (b.start_time <= start_time /\ b.end_time >= end_time)
            /\ MatchResource(b, rtype, rid)
        excluded(b) ==
            /\ exclude_booking_id # None
            /\ Val(exclude_booking_id) # 0
            /\ b.booking_id = Val(exclude_booking_id)
        conflicts == {b \in B : hit(b) /\ ~excluded(b)}
    IN  Cardinality(conflicts) > 0

\* ------------------------------------------------------ request validation
\* BookingCreate: the enum and gt=0 field constraints and its two validators.
\* Faulty variant: the start is never compared with the clock.
start_time_must_be_in_future_skipped(data, clock) == TRUE

start_time_must_be_in_future(data, clock) == ~(data.start_time < clock)

BookingCreate_end_time_must_be_after_start_time(data) ==
    ~(data.end_time <= data.start_time)

BookingCreateValid(data, clock) ==
    /\ data.resource_type \in BookingResourceType
    /\ data.resource_id > 0
    /\ start_time_must_be_in_future(data, clock)
    /\ BookingCreate_end_time_must_be_after_start_time(data)

\* BookingUpdate: three optional fields; "set" holds the field names the
\* request body carries (model_dump(exclude_unset=True) keeps exactly those).
UpdateFields == {"start_time", "end_time", "pending"}

BookingUpdate ==
    { u \in [set : SUBSET UpdateFields, start_time : Opt(Times),
             end_time : Opt(Times), pending : Opt(BOOLEAN)] :
        /\ ("start_time" \notin u.set => u.start_time = None)
        /\ ("end_time" \notin u.set => u.end_time = None)
        /\ ("pending" \notin u.set => u.pending = None) }

BookingUpdate_end_time_must_be_after_start_time(data) ==
    ~(/\ data.start_time # None
      /\ data.end_time # None
      /\ Val(data.end_time) <= Val(data.start_time))

\* ---------------------------------------------------- service: create
\* Faulty variant: every room needs approval, whatever its type says.
needs_approval_every_room(data, resource) == data.resource_type = "room"

\* "Determine if booking needs approval": only a room whose type asks for it.
needs_approval(data, resource) ==
    /\ data.resource_type = "room"
    /\ \E r \in resource : \E t \in room_type(r) : t.approval

\* "Create booking": the row handed to db.add.
Booking(booking_id, user_id, data, pending) ==
    [ booking_id |-> booking_id,
      user_id    |-> user_id,
      desk_id    |-> IF data.resource_type = "desk"
                     THEN Some(data.resource_id) ELSE None,
      room_id    |-> IF data.resource_type = "room"
                     THEN Some(data.resource_id) ELSE None,
      start_time |-> data.start_time,
      end_time   |-> data.end_time,
      pending    |-> pending ]

\* Result of BookingService.create_booking: the HTTP status it raises or
\* returns with, the table and the sequence afterwards.  fault is the store
\* failing at add/commit.
\* Faulty variant: the failed transaction is not rolled back.
create_booking_no_rollback(B, nid, user_id, data, fault) ==
    LET resource ==
            IF data.resource_type = "desk"
            THEN get_desk_by_id(data.resource_id)
            ELSE get_room_by_id(data.resource_id)
        has_conflict ==
            check_booking_conflict(B, data.resource_type, data.resource_id,
                                   data.start_time, data.end_time, None)
        pending == needs_approval(data, resource)
        booking == Booking(nid, user_id, data, pending)
    IN  IF resource = {}
        THEN [status |-> HTTP_404_NOT_FOUND, bookings |-> B, next_id |-> nid,
              booking |-> None]
        ELSE IF has_conflict
        THEN [status |-> HTTP_409_CONFLICT, bookings |-> B, next_id |-> nid,
              booking |-> None]
        ELSE IF fault
        THEN [status |-> HTTP_500_INTERNAL_SERVER_ERROR,
              bookings |-> B \cup {booking}, next_id |-> nid + 1,
              booking |-> None]
        ELSE [status |-> HTTP_201_CREATED, bookings |-> B \cup {booking},
              next_id |-> nid + 1, booking |-> Some(nid)]

create_booking(B, nid, user_id, data, fault) ==
    LET resource ==
            IF data.resource_type = "desk"
            THEN get_desk_by_id(data.resource_id)
            ELSE get_room_by_id(data.resource_id)
        has_conflict ==
            check_booking_conflict(B, data.resource_type, data.resource_id,
                                   data.start_time, data.end_time, None)
        pending == needs_approval(data, resource)
        booking == Booking(nid, user_id, data, pending)
    IN  IF resource = {}
        THEN [status |-> HTTP_404_NOT_FOUND, bookings |-> B, next_id |-> nid,
              booking |-> None]
        ELSE IF has_conflict
        THEN [status |-> HTTP_409_CONFLICT, bookings |-> B, next_id |-> nid,
              booking |-> None]
        ELSE IF fault
        THEN [status |-> HTTP_500_INTERNAL_SERVER_ERROR, bookings |-> B,
              next_id |-> nid, booking |-> None]
        ELSE [status |-> HTTP_201_CREATED, bookings |-> B \cup {booking},
              next_id |-> nid + 1, booking |-> Some(nid)]

\* ---------------------------------------------------- service: update
\* Faulty variant: the setattr loop also clears the desk column.
ApplyUpdate_clearing_desk(b, data) ==
    [ b EXCEPT
        !.desk_id    = None,
        !.start_time = IF "start_time" \in data.set
                       THEN Val(data.start_time) ELSE @,
        !.end_time   = IF "end_time" \in data.set
                       THEN Val(data.end_time) ELSE @,
        !.pending    = IF "pending" \in data.set
                       THEN Val(data.pending) ELSE @ ]

\* The row after the setattr loop; only called when no set field is null.
ApplyUpdate(b, data) ==
    [ b EXCEPT
        !.start_time = IF "start_time" \in data.set
                       THEN Val(data.start_time) ELSE @,
        !.end_time   = IF "end_time" \in data.set
                       THEN Val(data.end_time) ELSE @,
        !.pending    = IF "pending" \in data.set
                       THEN Val(data.pending) ELSE @ ]

\* A set field carrying null violates NOT NULL at commit: IntegrityError.
IntegrityError(data) == \E f \in data.set : data[f] = None

\* Result of BookingService.update_booking: the returned booking (None when
\* the row is missing or the commit raised IntegrityError) and the table.
update_booking(B, booking_id, data) ==
    LET found == get_booking_by_id(B, booking_id)
    IN  IF found = {}
        THEN [booking |-> None, bookings |-> B]
        ELSE IF IntegrityError(data)
        THEN [booking |-> None, bookings |-> B]
        ELSE LET old == Val(found)
                 new == ApplyUpdate(old, data)
             IN  [booking |-> Some(new), bookings |-> (B \ {old}) \cup {new}]

\* ---------------------------------------------------- service: cancel
\* Faulty variant: the delete is keyed on the owner instead of the booking.
cancel_booking_of_owner(B, booking_id) ==
    LET found == get_booking_by_id(B, booking_id)
    IN  IF found = {}
        THEN [success |-> FALSE, bookings |-> B]
        ELSE [success |-> TRUE,
              bookings |-> {b \in B : b.user_id # Val(found).user_id}]

\* Result of BookingService.cancel_booking: its boolean and the table.
cancel_booking(B, booking_id) ==
    LET found == get_booking_by_id(B, booking_id)
    IN  IF found = {}
        THEN [success |-> FALSE, bookings |-> B]
        ELSE [success |-> TRUE, bookings |-> B \ found]

\* ---------------------------------------------- service: availability
\* The instants of the availability grid are minutes since midnight of
\* day 0: datetime.hour, datetime.minute and datetime.date of an instant.
hour(t) == (t % 1440) \div 60

minute(t) == t % 60

date(t) == t \div 1440

\* f"{hour:02d}:{minute:02d}": the four digits of the label.  The colon,
\* which every label carries at the same place, is left out.
time_str(h, m) == <<h \div 10, h % 10, m \div 10, m % 10>>

start_hour == 8

end_hour == 20

\* "for minute in [0, 30]".
slot_minutes == <<0, 30>>

\* "current_time += timedelta(minutes=30)".
timedelta_minutes == 30

\* Faulty variant: the hours of the grid run through end_hour itself.
all_slots_through_end_hour ==
    [i \in 1..((end_hour + 1 - start_hour) * Len(slot_minutes)) |->
        time_str(start_hour + (i - 1) \div Len(slot_minutes),
                 slot_minutes[((i - 1) % Len(slot_minutes)) + 1])]

\* The two nested loops that fill all_slots.
all_slots ==
    [i \in 1..((end_hour - start_hour) * Len(slot_minutes)) |->
        time_str(start_hour + (i - 1) \div Len(slot_minutes),
                 slot_minutes[((i - 1) % Len(slot_minutes)) + 1])]

\* datetime.combine(check_date, datetime.min.time()) and (..max.time()),
\* 23:59:59.999999, which for instants of whole minutes is minute 23:59.
start_of_day(check_date) == check_date * 1440

end_of_day(check_date) == check_date * 1440 + 1439

\* Faulty variant: the query forgets the resource.
day_bookings_any_resource(B, rtype, rid, check_date) ==
    {b \in B : /\ b.start_time >= start_of_day(check_date)
               /\ b.end_time <= end_of_day(check_date)}

\* "Get bookings for this resource on this date".
day_bookings(B, rtype, rid, check_date) ==
    {b \in B : /\ MatchResource(b, rtype, rid)
               /\ b.start_time >= start_of_day(check_date)
               /\ b.end_time <= end_of_day(check_date)}

\* Faulty variant: the walk also visits the end of the booking.
walk_through_end(booking_start, booking_end) ==
    {current_time \in
        {booking_start + k * timedelta_minutes :
            k \in 0..((booking_end - booking_start) \div timedelta_minutes)} :
        current_time <= booking_end}

\* The instants current_time takes in "while current_time < booking_end".
walk(booking_start, booking_end) ==
    {current_time \in
        {booking_start + k * timedelta_minutes :
            k \in 0..((booking_end - booking_start) \div timedelta_minutes)} :
        current_time < booking_end}

Range(seq) == {seq[i] : i \in DOMAIN seq}

\* The set booked_slots after the loop over the fetched rows.
booked_slots(rows) ==
    UNION { {time_str(hour(t), minute(t)) : t \in walk(b.start_time, b.end_time)}
              \cap Range(all_slots) : b \in rows }

\* The order of Python strings on two labels.
str_lt(a, b) ==
    \/ \E i \in 1..Len(a) :
          /\ i <= Len(b)
          /\ a[i] < b[i]
          /\ \A j \in 1..(i - 1) : a[j] = b[j]
    \/ /\ Len(a) < Len(b)
       /\ \A j \in 1..Len(a) : a[j] = b[j]

\* Faulty variant: the list comes out in descending order.
sorted_descending(S) ==
    [i \in 1..Cardinality(S) |->
        CHOOSE x \in S : Cardinality({y \in S : str_lt(x, y)}) = i - 1]

\* sorted(list(booked_slots)).
sorted(S) ==
    [i \in 1..Cardinality(S) |->
        CHOOSE x \in S : Cardinality({y \in S : str_lt(y, x)}) = i - 1]

available_slots(booked) ==
    SelectSeq(all_slots, LAMBDA slot : slot \notin booked)

\* resource_name records which expression named the resource.
get_availability(B, rtype, rid, check_date) ==
    LET resource == IF rtype = "desk"
                    THEN get_desk_by_id(rid) ELSE get_room_by_id(rid)
        booked == booked_slots(day_bookings(B, rtype, rid, check_date))
    IN  [ resource_type   |-> rtype,
          resource_id     |-> rid,
          resource_name   |-> IF rtype = "desk"
                              THEN (IF resource # None
                                    THEN "position_name" ELSE "desk-{id}")
                              ELSE (IF resource # None
                                    THEN "name" ELSE "room-{id}"),
          date            |-> check_date,
          all_slots       |-> all_slots,
          booked_slots    |-> sorted(booked),
          available_slots |-> available_slots(booked) ]

\* ------------------------------------------------------------ the requests
\* The record kept of the last request handled: the operation, the HTTP
\* status of its response and the booking id it named or created.
NoRequest == [op |-> "none", status |-> "none", booking_id |-> None]

\* The availability endpoint has not answered yet.
NoAvailability == [status |-> "none", body |-> None]

Response(op, status, booking_id) ==
    [op |-> op, status |-> status, booking_id |-> booking_id]

\* The workers of the concurrent specification, each with its own session.
Workers == {"w1", "w2"}

Idle ==
    [ pc |-> "idle", user_id |-> 0, data |-> None, pending |-> FALSE,
      status |-> "none" ]

Init ==
    /\ bookings = {}
    /\ next_id = 1
    /\ now = 0
    /\ last = NoRequest
    /\ workers = [w \in Workers |-> Idle]
    /\ availability = NoAvailability

\* ------------------------------------------------- route: POST /bookings/
\* booking_data is the parsed body; a body the schema rejects never reaches
\* the route function and is answered 422.
routes_create_booking(current_user, booking_data, fault) ==
    /\ next_id <= MaxBookings
    /\ UNCHANGED now
    /\ IF ~BookingCreateValid(booking_data, now)
       THEN /\ UNCHANGED <<bookings, next_id>>
            /\ last' = Response("create", HTTP_422_UNPROCESSABLE, None)
       ELSE LET r == create_booking(bookings, next_id, current_user.user_id,
                                    booking_data, fault)
            IN  /\ bookings' = r.bookings
                /\ next_id' = r.next_id
                /\ last' = Response("create", r.status, r.booking)

\* -------------------------------------------- route: PUT /bookings/{id}
routes_update_booking(current_user, booking_id, booking_data) ==
    LET booking == get_booking_by_id(bookings, booking_id)
        r == update_booking(bookings, booking_id, booking_data)
        status ==
            IF ~BookingUpdate_end_time_must_be_after_start_time(booking_data)
            THEN HTTP_422_UNPROCESSABLE
            ELSE IF booking = {} THEN HTTP_404_NOT_FOUND
            ELSE IF Val(booking).user_id # current_user.user_id
            THEN HTTP_403_FORBIDDEN
            ELSE IF r.booking = None
            THEN HTTP_500_INTERNAL_SERVER_ERROR
            ELSE HTTP_200_OK
    IN  /\ bookings' = IF status \in {HTTP_200_OK, HTTP_500_INTERNAL_SERVER_ERROR}
                       THEN r.bookings ELSE bookings
        /\ UNCHANGED <<next_id, now>>
        /\ last' = Response("update", status, Some(booking_id))

\* ----------------------------------------- route: DELETE /bookings/{id}
\* Faulty variant: the route does not check who owns the booking.
routes_cancel_booking_unguarded(current_user, booking_id) ==
    LET booking == get_booking_by_id(bookings, booking_id)
        r == cancel_booking(bookings, booking_id)
        status ==
            IF booking = {} THEN HTTP_404_NOT_FOUND
            ELSE IF ~r.success
            THEN HTTP_500_INTERNAL_SERVER_ERROR
            ELSE HTTP_204_NO_CONTENT
    IN  /\ bookings' = IF status \in {HTTP_204_NO_CONTENT,
                                      HTTP_500_INTERNAL_SERVER_ERROR}
                       THEN r.bookings ELSE bookings
        /\ UNCHANGED <<next_id, now>>
        /\ last' = Response("cancel", status, Some(booking_id))

routes_cancel_booking(current_user, booking_id) ==
    LET booking == get_booking_by_id(bookings, booking_id)
        r == cancel_booking(bookings, booking_id)
        status ==
            IF booking = {} THEN HTTP_404_NOT_FOUND
            ELSE IF /\ Val(booking).user_id # current_user.user_id
                    /\ ~current_user.is_admin
            THEN HTTP_403_FORBIDDEN
            ELSE IF ~r.success
            THEN HTTP_500_INTERNAL_SERVER_ERROR
            ELSE HTTP_204_NO_CONTENT
    IN  /\ bookings' = IF status \in {HTTP_204_NO_CONTENT,
                                      HTTP_500_INTERNAL_SERVER_ERROR}
                       THEN r.bookings ELSE bookings
        /\ UNCHANGED <<next_id, now>>
        /\ last' = Response("cancel", status, Some(booking_id))

\* ------------------------------------------- the callers of specification Spec
\* One caller; bodies that name an existing kind of resource, ids 1 and 2
\* (desk 2 does not exist), any pair of instants; updates of the interval.
Callers == {u \in UserTable : u.user_id = 1}

CreateRequests ==
    [ resource_type : BookingResourceType, resource_id : 1..2,
      start_time : Times, end_time : Times ]

IntervalUpdates == {u \in BookingUpdate : "pending" \notin u.set}

\* Booking ids a request may name: those handed out so far and the next one.
RequestedBookingIds == 1..next_id

Create ==
    /\ \E u \in Callers, d \in CreateRequests, fault \in BOOLEAN :
          routes_create_booking(u, d, fault)
    /\ UNCHANGED <<workers, availability>>

Update ==
    /\ \E u \in Callers, id \in RequestedBookingIds, d \in IntervalUpdates :
          routes_update_booking(u, id, d)
    /\ UNCHANGED <<workers, availability>>

Cancel ==
    /\ \E u \in Callers, id \in RequestedBookingIds :
          routes_cancel_booking(u, id)
    /\ UNCHANGED <<workers, availability>>

Next == Create \/ Update \/ Cancel

Spec == Init /\ [][Next]_vars

\* ===================================================================
\* Concurrent creates: each await of BookingService.create_booking is a
\* step of its own, and every statement of a session reads the rows
\* committed so far.
\* ===================================================================
\* The bodies the concurrent callers send: valid intervals on desk 1 and on
\* desk 2, which does not exist.
ConcurrentCreates ==
    {d \in CreateRequests : d.resource_type = "desk" /\ BookingCreateValid(d, now)}

Finish(w, status) ==
    workers' = [workers EXCEPT ![w].pc = "done", ![w].status = status]

\* The route is entered with a parsed body.
Receive(w) ==
    /\ workers[w].pc = "idle"
    /\ \E u \in Callers, d \in ConcurrentCreates :
         workers' = [workers EXCEPT ![w].pc = "resource",
                                    ![w].user_id = u.user_id,
                                    ![w].data = Some(d)]
    /\ UNCHANGED <<bookings, next_id, now, last, availability>>

\* "Verify resource exists": await get_desk_by_id / get_room_by_id.
VerifyResource(w) ==
    /\ workers[w].pc = "resource"
    /\ LET d == Val(workers[w].data)
           resource == IF d.resource_type = "desk"
                       THEN get_desk_by_id(d.resource_id)
                       ELSE get_room_by_id(d.resource_id)
       IN  IF resource = {}
           THEN Finish(w, HTTP_404_NOT_FOUND)
           ELSE workers' = [workers EXCEPT
                              ![w].pc = "conflict",
                              ![w].pending = needs_approval(d, resource)]
    /\ UNCHANGED <<bookings, next_id, now, last, availability>>

\* "Check for conflicts": await check_booking_conflict.
CheckConflict(w) ==
    /\ workers[w].pc = "conflict"
    /\ LET d == Val(workers[w].data)
       IN  IF check_booking_conflict(bookings, d.resource_type, d.resource_id,
                                     d.start_time, d.end_time, None)
           THEN Finish(w, HTTP_409_CONFLICT)
           ELSE workers' = [workers EXCEPT ![w].pc = "commit"]
    /\ UNCHANGED <<bookings, next_id, now, last, availability>>

\* "Create booking": db.add and await db.commit, or the store failing there.
Commit(w) ==
    /\ workers[w].pc = "commit"
    /\ LET d == Val(workers[w].data)
           booking == Booking(next_id, workers[w].user_id, d, workers[w].pending)
       IN  \/ /\ bookings' = bookings \cup {booking}
              /\ next_id' = next_id + 1
              /\ Finish(w, HTTP_201_CREATED)
           \/ /\ UNCHANGED <<bookings, next_id>>
              /\ Finish(w, HTTP_500_INTERNAL_SERVER_ERROR)
    /\ UNCHANGED <<now, last, availability>>

NextConcurrent ==
    \E w \in Workers :
        Receive(w) \/ VerifyResource(w) \/ CheckConflict(w) \/ Commit(w)

SpecConcurrent == Init /\ [][NextConcurrent]_vars

\* ===================================================================
\* The approval flag: the same handlers, with update bodies that carry the
\* pending field only.
\* ===================================================================
PendingUpdates ==
    {u \in BookingUpdate : "start_time" \notin u.set /\ "end_time" \notin u.set}

PendingCreate ==
    /\ \E u \in Callers, d \in CreateRequests, fault \in BOOLEAN :
          routes_create_booking(u, d, fault)
    /\ UNCHANGED <<workers, availability>>

PendingUpdate ==
    /\ \E u \in Callers, id \in RequestedBookingIds, d \in PendingUpdates :
          routes_update_booking(u, id, d)
    /\ UNCHANGED <<workers, availability>>

PendingCancel ==
    /\ \E u \in Callers, id \in RequestedBookingIds :
          routes_cancel_booking(u, id)
    /\ UNCHANGED <<workers, availability>>

NextPending == PendingCreate \/ PendingUpdate \/ PendingCancel

SpecPending == Init /\ [][NextPending]_vars

\* ===================================================================
\* The clock: the same handlers on the desks, with time passing between
\* the requests.
\* ===================================================================
DeskCreates == {d \in CreateRequests : d.resource_type = "desk"}

\* datetime.now moves on.
Tick ==
    /\ now < MaxTime
    /\ now' = now + 1
    /\ UNCHANGED <<bookings, next_id, last, workers, availability>>

ClockCreate ==
    /\ \E u \in Callers, d \in DeskCreates, fault \in BOOLEAN :
          routes_create_booking(u, d, fault)
    /\ UNCHANGED <<workers, availability>>

ClockUpdate ==
    /\ \E u \in Callers, id \in RequestedBookingIds, d \in IntervalUpdates :
          routes_update_booking(u, id, d)
    /\ UNCHANGED <<workers, availability>>

ClockCancel ==
    /\ \E u \in Callers, id \in RequestedBookingIds :
          routes_cancel_booking(u, id)
    /\ UNCHANGED <<workers, availability>>

NextClock == Tick \/ ClockCreate \/ ClockUpdate \/ ClockCancel

SpecClock == Init /\ [][NextClock]_vars

\* ===================================================================
\* Availability: the read-only endpoint over stores of at most MaxBookings
\* rows, each booked through the create handler's row constructor.
\* ===================================================================
\* The minute of day d at h:m.
At(d, h, m) == d * 1440 + h * 60 + m

Instants ==
    { At(0, 19, 0), At(1, 9, 0), At(1, 9, 15), At(1, 9, 45), At(1, 10, 0),
      At(1, 19, 30) }

StoredBodies ==
    [resource_type : BookingResourceType, resource_id : {1},
     start_time : Instants, end_time : Instants]

StoredBooking(booking_id, d) ==
    Booking(booking_id, 1, d,
            needs_approval(d, IF d.resource_type = "desk"
                              THEN get_desk_by_id(d.resource_id)
                              ELSE get_room_by_id(d.resource_id)))

InitAvailability ==
    /\ \E n \in 0..MaxBookings : \E f \in [1..n -> StoredBodies] :
          /\ bookings = {StoredBooking(i, f[i]) : i \in 1..n}
          /\ next_id = n + 1
    /\ now = 0
    /\ last = NoRequest
    /\ workers = [w \in Workers |-> Idle]
    /\ availability = NoAvailability

\* Faulty variant: answering removes the rows the query fetched.
routes_check_availability_consuming(rtype, rid, check_date) ==
    /\ availability' =
          IF rtype \notin {"desk", "room"}
          THEN [status |-> HTTP_400_BAD_REQUEST, body |-> None]
          ELSE [status |-> HTTP_200_OK,
                body |-> Some(get_availability(bookings, rtype, rid, check_date))]
    /\ bookings' = bookings \ day_bookings(bookings, rtype, rid, check_date)
    /\ UNCHANGED <<next_id, now, last, workers>>

\* GET /bookings/availability/{resource_type}/{resource_id}
routes_check_availability(rtype, rid, check_date) ==
    /\ availability' =
          IF rtype \notin {"desk", "room"}
          THEN [status |-> HTTP_400_BAD_REQUEST, body |-> None]
          ELSE [status |-> HTTP_200_OK,
                body |-> Some(get_availability(bookings, rtype, rid, check_date))]
    /\ UNCHANGED <<bookings, next_id, now, last, workers>>

QueriedKinds == {"desk", "room", "hall"}

QueriedDates == 0..1

CheckAvailability ==
    \E rtype \in QueriedKinds, rid \in 1..2, check_date \in QueriedDates :
        routes_check_availability(rtype, rid, check_date)

NextAvailability == CheckAvailability

SpecAvailability == InitAvailability /\ [][NextAvailability]_vars

\* ===================================================================
\* The boundary: create bodies of every shape, among them kinds the enum
\* does not hold, sent while time passes.
\* ===================================================================
BoundaryCreates ==
    [resource_type : {"desk", "hall"}, resource_id : {1},
     start_time : Times, end_time : Times]

BoundaryCreate ==
    /\ \E u \in Callers, d \in BoundaryCreates, fault \in BOOLEAN :
          routes_create_booking(u, d, fault)
    /\ UNCHANGED <<workers, availability>>

NextBoundary == Tick \/ BoundaryCreate \/ ClockCancel

SpecBoundary == Init /\ [][NextBoundary]_vars

\* ===================================================================
\* Concurrent updates and cancels: the route's own lookup and the call of
\* the service are separate awaits, and other requests run between them.
\* Each call of the service is taken as one step.
\* ===================================================================
IdleRequest ==
    [ pc |-> "idle", op |-> "none", user_id |-> 0, booking_id |-> 0,
      data |-> None, status |-> "none" ]

\* The rows the store holds when the requests arrive: bookings of user 1 on
\* desk 1.
RaceBodies ==
    {d \in DeskCreates : d.resource_id = 1 /\ d.start_time < d.end_time
                         /\ d.end_time <= 2}

RaceUpdates ==
    {u \in IntervalUpdates : u.set = {"end_time"} /\ u.end_time # None}

InitRace ==
    /\ \E n \in 1..MaxBookings : \E f \in [1..n -> RaceBodies] :
          /\ bookings = {Booking(i, 1, f[i], FALSE) : i \in 1..n}
          /\ next_id = n + 1
    /\ now = 0
    /\ last = NoRequest
    /\ workers = [w \in Workers |-> IdleRequest]
    /\ availability = NoAvailability

FinishRequest(w, status) ==
    workers' = [workers EXCEPT ![w].pc = "done", ![w].status = status]

\* PUT or DELETE /bookings/{booking_id} arrives with a body the schema
\* accepted.
ReceiveRequest(w) ==
    /\ workers[w].pc = "idle"
    /\ \E u \in Callers, id \in 1..MaxBookings :
          \/ \E d \in RaceUpdates :
                workers' = [workers EXCEPT ![w] =
                    [ pc |-> "lookup", op |-> "update", user_id |-> u.user_id,
                      booking_id |-> id, data |-> Some(d), status |-> "none" ]]
          \/ workers' = [workers EXCEPT ![w] =
                    [ pc |-> "lookup", op |-> "cancel", user_id |-> u.user_id,
                      booking_id |-> id, data |-> None, status |-> "none" ]]
    /\ UNCHANGED <<bookings, next_id, now, last, availability>>

\* The route: await get_booking_by_id, 404 and the ownership check.
RouteLookup(w) ==
    /\ workers[w].pc = "lookup"
    /\ LET booking == get_booking_by_id(bookings, workers[w].booking_id)
           caller == CHOOSE u \in UserTable : u.user_id = workers[w].user_id
       IN  IF booking = {}
           THEN FinishRequest(w, HTTP_404_NOT_FOUND)
           ELSE IF /\ Val(booking).user_id # caller.user_id
                   /\ (workers[w].op = "update" \/ ~caller.is_admin)
           THEN FinishRequest(w, HTTP_403_FORBIDDEN)
           ELSE workers' = [workers EXCEPT ![w].pc = "service"]
    /\ UNCHANGED <<bookings, next_id, now, last, availability>>

\* The route: await booking_service.update_booking / cancel_booking and the
\* 500 for a result of None / False.
ServiceCall(w) ==
    /\ workers[w].pc = "service"
    /\ IF workers[w].op = "update"
       THEN LET r == update_booking(bookings, workers[w].booking_id,
                                    Val(workers[w].data))
            IN  /\ bookings' = r.bookings
                /\ FinishRequest(w, IF r.booking = None
                                    THEN HTTP_500_INTERNAL_SERVER_ERROR
                                    ELSE HTTP_200_OK)
       ELSE LET r == cancel_booking(bookings, workers[w].booking_id)
            IN  /\ bookings' = r.bookings
                /\ FinishRequest(w, IF ~r.success
                                    THEN HTTP_500_INTERNAL_SERVER_ERROR
                                    ELSE HTTP_204_NO_CONTENT)
    /\ UNCHANGED <<next_id, now, last, availability>>

NextRace ==
    \E w \in Workers : ReceiveRequest(w) \/ RouteLookup(w) \/ ServiceCall(w)

SpecRace == InitRace /\ [][NextRace]_vars

\* ===================================================================
\* The two read paths side by side: the availability endpoint and the
\* conflict query, over stores of at most MaxBookings rows.
\* ===================================================================
ReadInstants == { At(1, 9, 0), At(1, 9, 15), At(1, 10, 0) }

ReadBodies == {d \in StoredBodies : {d.start_time, d.end_time} \subseteq ReadInstants}

InitRead ==
    /\ \E n \in 0..MaxBookings : \E f \in [1..n -> ReadBodies] :
          /\ bookings = {StoredBooking(i, f[i]) : i \in 1..n}
          /\ next_id = n + 1
    /\ now = 0
    /\ last = NoRequest
    /\ workers = [w \in Workers |-> Idle]
    /\ availability = NoAvailability

\* A call of BookingService.check_booking_conflict; its result is kept in
\* last.status and the excluded booking in last.booking_id.
service_check_booking_conflict(rtype, rid, start_time, end_time, exclude_booking_id) ==
    /\ last' = Response("check_booking_conflict",
                        IF check_booking_conflict(bookings, rtype, rid, start_time,
                                                  end_time, exclude_booking_id)
                        THEN "True" ELSE "False",
                        exclude_booking_id)
    /\ UNCHANGED <<bookings, next_id, now, workers, availability>>

ReadConflict ==
    \E rtype \in BookingResourceType, rid \in 1..2, s \in ReadInstants,
       e \in ReadInstants, ex \in Opt(1..MaxBookings) :
        service_check_booking_conflict(rtype, rid, s, e, ex)

ReadAvailability ==
    \E rtype \in QueriedKinds, rid \in 1..2, check_date \in QueriedDates :
        routes_check_availability(rtype, rid, check_date)

NextRead == ReadConflict \/ ReadAvailability

SpecRead == InitRead /\ [][NextRead]_vars

\* ===================================================================
\* Ownership: the handlers called by every user of the table, on desk 1.
\* ===================================================================
OwnershipCreates ==
    {d \in DeskCreates : d.resource_id = 1 /\ d.end_time <= 2}

OwnershipUpdates ==
    {u \in IntervalUpdates : u.set = {"end_time"}}

OwnershipCreate ==
    /\ \E u \in UserTable, d \in OwnershipCreates, fault \in BOOLEAN :
          routes_create_booking(u, d, fault)
    /\ UNCHANGED <<workers, availability>>

OwnershipUpdate ==
    /\ \E u \in UserTable, id \in RequestedBookingIds, d \in OwnershipUpdates :
          routes_update_booking(u, id, d)
    /\ UNCHANGED <<workers, availability>>

OwnershipCancel ==
    /\ \E u \in UserTable, id \in RequestedBookingIds :
          routes_cancel_booking(u, id)
    /\ UNCHANGED <<workers, availability>>

NextOwnership == OwnershipCreate \/ OwnershipUpdate \/ OwnershipCancel

SpecOwnership == Init /\ [][NextOwnership]_vars

\* ===================================================================
\* The derived views: bookings of a desk (confirmed) and of a room that
\* needs approval (pending), read while time passes.
\* ===================================================================
ViewsCreates ==
    {d \in CreateRequests : d.resource_id = 1}

ViewsCreate ==
    /\ \E u \in Callers, d \in ViewsCreates, fault \in BOOLEAN :
          routes_create_booking(u, d, fault)
    /\ UNCHANGED <<workers, availability>>

NextViews == Tick \/ ViewsCreate \/ ClockCancel

SpecViews == Init /\ [][NextViews]_vars

\* ===================================================================
\* Properties
\* ===================================================================
\* Two half-open intervals [s1, e1) and [s2, e2) overlap.
Overlap(s1, e1, s2, e2) == s1 < e2 /\ s2 < e1

SameResource(a, b) == a.desk_id = b.desk_id /\ a.room_id = b.room_id

\* The rows stored for one resource.
RowsOf(B, rtype, rid) == {b \in B : resource_type(b) = rtype /\ resource_id(b) = rid}

\* The resource a create request names is in the catalog.
ResourceExists(rtype, rid) ==
    IF rtype = "desk" THEN get_desk_by_id(rid) # {} ELSE get_room_by_id(rid) # {}

\* C1: no two distinct stored bookings on the same resource overlap,
\* pending or confirmed, after any sequence of create, update and cancel
\* requests.
C1_NoOverlap ==
    \A a \in bookings, b \in bookings :
        (a.booking_id # b.booking_id /\ SameResource(a, b))
            => ~Overlap(a.start_time, a.end_time, b.start_time, b.end_time)

\* C2: two creates for overlapping intervals on the same resource, handled
\* by separate workers: one is answered 201 and the other 409, and both
\* never commit (a worker answered 500 by a failing store is left aside).
C2_ExactlyOneWins ==
    \A w1 \in Workers, w2 \in Workers :
        ( /\ w1 # w2
          /\ workers[w1].pc = "done"
          /\ workers[w2].pc = "done"
          /\ workers[w1].status # HTTP_500_INTERNAL_SERVER_ERROR
          /\ workers[w2].status # HTTP_500_INTERNAL_SERVER_ERROR
          /\ LET a == Val(workers[w1].data)
                 b == Val(workers[w2].data)
             IN  /\ a.resource_type = b.resource_type
                 /\ a.resource_id = b.resource_id
                 /\ ResourceExists(a.resource_type, a.resource_id)
                 /\ Overlap(a.start_time, a.end_time, b.start_time, b.end_time) )
        => {workers[w1].status, workers[w2].status}
              = {HTTP_201_CREATED, HTTP_409_CONFLICT}

\* C3: an update that changes the interval of a booking never commits an
\* interval that overlaps another stored booking of the same resource (it
\* is answered 409 and the booking keeps its start and end).
C3_UpdateRechecksConflict ==
    [][ last'.op = "update" =>
          \A old \in bookings, new \in bookings' :
            ( /\ Some(old.booking_id) = last'.booking_id
              /\ new.booking_id = old.booking_id
              /\ <<new.start_time, new.end_time>>
                    # <<old.start_time, old.end_time>> )
            => ~\E b \in bookings' :
                  /\ b.booking_id # new.booking_id
                  /\ SameResource(new, b)
                  /\ Overlap(new.start_time, new.end_time,
                             b.start_time, b.end_time) ]_vars

\* C4: for every candidate interval with start < end, every resource and
\* every excluded id, check_booking_conflict answers true exactly when a
\* stored booking of that resource, other than the excluded one, satisfies
\* stored.start < end and start < stored.end.
C4_ConflictIffOverlap ==
    \A rtype \in BookingResourceType, rid \in 1..2, s \in Times, e \in Times,
       ex \in Opt(1..MaxBookings) :
        s < e =>
            ( check_booking_conflict(bookings, rtype, rid, s, e, ex)
              <=> \E b \in RowsOf(bookings, rtype, rid) :
                    /\ b.booking_id \notin ex
                    /\ Overlap(b.start_time, b.end_time, s, e) )

\* The create requests the schema accepts at the current clock.
ValidCreates == {d \in CreateRequests : BookingCreateValid(d, now)}

\* The row a successful create of d adds.
Created(r, d) ==
    {b \in r.bookings \ bookings :
        /\ Some(b.booking_id) = r.booking
        /\ resource_type(b) = d.resource_type
        /\ resource_id(b) = d.resource_id
        /\ b.start_time = d.start_time
        /\ b.end_time = d.end_time}

\* C5: back-to-back bookings do not conflict.  On a resource with no
\* booking every valid create succeeds, and on a resource whose only
\* booking is [t1, t2) a create of [t2, t3) and a create of [t0, t1) both
\* succeed (unless the store itself fails, and then the answer is not 409).
C5_BackToBackSucceeds ==
    \A d \in ValidCreates, u \in Callers, fault \in BOOLEAN :
        LET rows == RowsOf(bookings, d.resource_type, d.resource_id)
            r == create_booking(bookings, next_id, u.user_id, d, fault)
            free == rows = {} /\ ResourceExists(d.resource_type, d.resource_id)
            adjacent ==
                \E b \in rows :
                    /\ rows = {b}
                    /\ b.start_time < b.end_time
                    /\ (d.start_time = b.end_time \/ d.end_time = b.start_time)
        IN  (free \/ adjacent) =>
                /\ r.status # HTTP_409_CONFLICT
                /\ ~fault => /\ r.status = HTTP_201_CREATED
                             /\ Created(r, d) # {}
                             /\ bookings \subseteq r.bookings

\* Witness of C5: the last create succeeded and its booking ends exactly
\* where the only other booking of the resource starts.
C5_Witness ==
    /\ last.op = "create"
    /\ last.status = HTTP_201_CREATED
    /\ \E a \in bookings, b \in bookings :
        /\ Some(a.booking_id) = last.booking_id
        /\ b.booking_id # a.booking_id
        /\ RowsOf(bookings, resource_type(a), resource_id(a)) = {a, b}
        /\ a.start_time < a.end_time
        /\ a.end_time = b.start_time
        /\ b.start_time < b.end_time

\* C6: a create whose interval overlaps a stored booking of the same
\* resource is answered 409 and creates nothing: the table and the id
\* sequence are as before.
C6_OverlappingCreateRejected ==
    \A d \in ValidCreates, u \in Callers, fault \in BOOLEAN :
        LET r == create_booking(bookings, next_id, u.user_id, d, fault)
        IN  (\E b \in RowsOf(bookings, d.resource_type, d.resource_id) :
                Overlap(b.start_time, b.end_time, d.start_time, d.end_time))
            => /\ r.status = HTTP_409_CONFLICT
               /\ r.bookings = bookings
               /\ r.next_id = next_id
               /\ r.booking = None

\* Witness of C6: the last create was answered 409, and the table holds a
\* booking that a valid request strictly inside it overlaps.
C6_Witness ==
    /\ last.op = "create"
    /\ last.status = HTTP_409_CONFLICT
    /\ \E b \in bookings : b.end_time - b.start_time >= 2

\* The approval flag of the resource a stored booking is on.
RequiresApproval(b) ==
    \E r \in RoomTable :
        /\ b.room_id = Some(r.room_id)
        /\ \E t \in TypeTable : t.type_id = r.type_id /\ t.approval

\* C7: a successful create stores its booking as pending exactly when the
\* resource requires approval (a room whose type has approval = TRUE), and
\* as confirmed on every desk and every other room.
C7_ApprovalGating ==
    [][ (last'.op = "create" /\ last'.status = HTTP_201_CREATED) =>
          \E b \in bookings' \ bookings :
            /\ Some(b.booking_id) = last'.booking_id
            /\ b.pending = RequiresApproval(b) ]_vars

\* Witness of C7: the last create succeeded, and the table holds a pending
\* booking on the approval room and a confirmed one on the other room.
C7_Witness ==
    /\ last.op = "create"
    /\ last.status = HTTP_201_CREATED
    /\ \E a \in bookings, b \in bookings :
        /\ a.room_id = Some(1) /\ a.pending
        /\ b.room_id = Some(2) /\ ~b.pending

\* The booking id was handed out and its row is gone: it was cancelled.
Cancelled(id) == id < next_id /\ get_booking_by_id(bookings, id) = {}

\* C8: cancelling an already cancelled booking answers success again and
\* leaves the table as the first cancel left it.
C8_CancelIdempotent ==
    [][ \A id \in 1..MaxBookings :
          (Cancelled(id) /\ last'.op = "cancel" /\ last'.booking_id = Some(id))
          => (last'.status = HTTP_204_NO_CONTENT /\ bookings' = bookings) ]_vars

\* C9: a cancel request, first or repeated, leaves every other stored
\* booking as it was and adds none.
C9_CancelFrame ==
    [][ last'.op = "cancel" =>
          /\ bookings' \subseteq bookings
          /\ \A b \in bookings :
                Some(b.booking_id) # last'.booking_id => b \in bookings' ]_vars

\* Witness of C9: a cancel succeeded and another booking is still stored.
C9_Witness ==
    /\ last.op = "cancel"
    /\ last.status = HTTP_204_NO_CONTENT
    /\ bookings # {}

\* C10: every stored booking ends strictly after it starts.
C10_EndAfterStart ==
    \A b \in bookings : b.start_time < b.end_time

\* C11: the approval state only moves from pending to confirmed: a stored
\* booking that is confirmed (pending = FALSE) is never pending afterwards.
C11_ConfirmedStaysConfirmed ==
    [][ \A b \in bookings, c \in bookings' :
          (c.booking_id = b.booking_id /\ ~b.pending) => ~c.pending ]_vars

C13_PastIffEnded ==
    \A b \in bookings : is_past(b, now) <=> b.end_time <= now

\* ------------------------------------------------------------ availability
\* The body of the last answer of the availability endpoint, and the stored
\* rows of the resource it was asked about.
Answered == availability.body # None

Answer == Val(availability.body)

AnswerRows == RowsOf(bookings, Answer.resource_type, Answer.resource_id)

\* The minute of the day a label "HH:MM" names, and the labels that are four
\* digits of a time of day.
LabelMinutes(l) == (l[1] * 10 + l[2]) * 60 + l[3] * 10 + l[4]

WellFormed(l) ==
    /\ Len(l) = 4
    /\ \A i \in 1..4 : l[i] \in 0..9
    /\ l[3] \in 0..5
    /\ l[1] * 10 + l[2] \in 0..23

\* The grid of the operating window: 08:00, 08:30, ..., 19:30.
GridMinutes == {480 + 30 * k : k \in 0..23}

\* Instant t lies on the grid of the window 08:00-20:00 of day d.
OnGrid(t, d) == t \in {d * 1440 + m : m \in GridMinutes \cup {1200}}

Ascending(seq) ==
    \A i, j \in DOMAIN seq : i < j => LabelMinutes(seq[i]) < LabelMinutes(seq[j])

\* seq lists, in ascending order, exactly the labels of the minutes M.
ListsExactly(seq, M) ==
    /\ Ascending(seq)
    /\ \A i \in DOMAIN seq : WellFormed(seq[i])
    /\ {LabelMinutes(seq[i]) : i \in DOMAIN seq} = M

\* The grid slots of day d that the interval [s, e) covers from their start,
\* and those it overlaps.
SlotsFrom(s, e, d) == {m \in GridMinutes : s <= d * 1440 + m /\ d * 1440 + m < e}

SlotsOverlapped(s, e, d) ==
    {m \in GridMinutes : Overlap(s, e, d * 1440 + m, d * 1440 + m + 30)}

BookedMinutes == {LabelMinutes(Answer.booked_slots[i]) : i \in DOMAIN Answer.booked_slots}

\* C14: when the only booking of the resource is [s, e) with s and e on the
\* 30-minute grid of the window 08:00-20:00 of the queried day, booked_slots
\* lists exactly the labels of the grid slots t with s <= t < e, and
\* available_slots is all_slots without them.
C14_AlignedBooking ==
    Answered =>
      \A b \in bookings :
        ( /\ AnswerRows = {b}
          /\ OnGrid(b.start_time, Answer.date)
          /\ OnGrid(b.end_time, Answer.date) )
        => LET M == SlotsFrom(b.start_time, b.end_time, Answer.date)
           IN  /\ ListsExactly(Answer.booked_slots, M)
               /\ Answer.available_slots =
                    SelectSeq(Answer.all_slots, LAMBDA l : LabelMinutes(l) \notin M)

\* The answer for a resource whose only booking is [09:00, 10:00) of the
\* queried day: two slots are booked.
C14_Witness ==
    /\ Answered
    /\ \E b \in bookings :
         /\ AnswerRows = {b}
         /\ b.start_time = Answer.date * 1440 + 540
         /\ b.end_time = Answer.date * 1440 + 600
         /\ Len(Answer.booked_slots) = 2

\* C15: a booking of the queried day whose start is not on the 30-minute
\* grid marks as booked every grid slot of that day its interval overlaps.
C15_UnalignedMarksOverlapped ==
    Answered =>
      \A b \in AnswerRows :
        ( /\ b.start_time % 30 # 0
          /\ b.start_time < b.end_time
          /\ date(b.start_time) = Answer.date
          /\ date(b.end_time) = Answer.date )
        => SlotsOverlapped(b.start_time, b.end_time, Answer.date) \subseteq BookedMinutes

\* C16: a booking that spans midnight is represented on each day it
\* intersects: the grid slots of the queried day that it overlaps are booked.
C16_MidnightSpan ==
    Answered =>
      \A b \in AnswerRows :
        ( /\ b.start_time % 30 = 0
          /\ date(b.start_time) < date(b.end_time)
          /\ Answer.date \in date(b.start_time)..date(b.end_time) )
        => SlotsOverlapped(b.start_time, b.end_time, Answer.date) \subseteq BookedMinutes

\* C17: for a resource with no bookings, booked_slots is empty and
\* available_slots is all_slots.
C17_NoBookings ==
    Answered =>
      ( AnswerRows = {}
        => /\ Answer.booked_slots = << >>
           /\ Answer.available_slots = Answer.all_slots )

\* The answer for a resource without bookings while another resource is
\* booked inside the window of the queried day.
C17_Witness ==
    /\ Answered
    /\ AnswerRows = {}
    /\ \E b \in bookings :
         /\ date(b.start_time) = Answer.date
         /\ date(b.end_time) = Answer.date
         /\ SlotsFrom(b.start_time, b.end_time, Answer.date) # {}

\* C18: for every store and every queried day, booked_slots is strictly
\* ascending, without duplicates and inside all_slots, and available_slots
\* is all_slots without the booked labels, in grid order: the two lists are
\* disjoint and together hold every label of all_slots.
C18_Partition ==
    Answered =>
      /\ Ascending(Answer.booked_slots)
      /\ Range(Answer.booked_slots) \subseteq Range(Answer.all_slots)
      /\ Answer.available_slots =
           SelectSeq(Answer.all_slots, LAMBDA l : l \notin Range(Answer.booked_slots))
      /\ Range(Answer.booked_slots) \cap Range(Answer.available_slots) = {}
      /\ Range(Answer.booked_slots) \cup Range(Answer.available_slots)
           = Range(Answer.all_slots)

\* The answer over two bookings of the resource that overlap each other on
\* the queried day, so that a slot is marked twice.
C18_Witness ==
    /\ Answered
    /\ Len(Answer.booked_slots) >= 2
    /\ \E b1, b2 \in AnswerRows :
         /\ b1 # b2
         /\ \A b \in {b1, b2} :
              date(b.start_time) = Answer.date /\ date(b.end_time) = Answer.date
         /\ SlotsFrom(b1.start_time, b1.end_time, Answer.date)
              \cap SlotsFrom(b2.start_time, b2.end_time, Answer.date) # {}

\* C19: all_slots is always the same 24 labels 08:00, 08:30, ..., 19:30 in
\* chronological order, whatever the resource, the day and the store.
C19_AllSlotsFixed ==
    Answered =>
      /\ Len(Answer.all_slots) = 24
      /\ \A i \in DOMAIN Answer.all_slots :
           /\ WellFormed(Answer.all_slots[i])
           /\ LabelMinutes(Answer.all_slots[i]) = 480 + 30 * (i - 1)

\* The answer for room 2, which the catalog holds but nobody booked, on
\* day 0, over a store of two bookings.
C19_Witness ==
    /\ Answered
    /\ Answer.resource_type = "room"
    /\ Answer.resource_id = 2
    /\ Answer.date = 0
    /\ Cardinality(bookings) = 2

\* ---------------------------------------------------- unknown resources
\* The catalog holds a resource of kind rtype with id rid.
InCatalog(rtype, rid) ==
    \/ rtype = "desk" /\ \E d \in DeskTable : d.desk_id = rid
    \/ rtype = "room" /\ \E r \in RoomTable : r.room_id = rid

\* Valid create bodies, naming ids inside and outside the catalog.
AnyResourceCreates ==
    {d \in [resource_type : BookingResourceType, resource_id : 1..3,
            start_time : Times, end_time : Times] : BookingCreateValid(d, now)}

\* C20: a create for a resource id that the catalog does not hold is
\* answered 404, which is neither 409 nor 500, whether or not the store
\* would fail, and leaves the booking store unchanged.
C20_UnknownResourceNotFound ==
    \A d \in AnyResourceCreates, u \in Callers, fault \in BOOLEAN :
        LET r == create_booking(bookings, next_id, u.user_id, d, fault)
        IN  ~InCatalog(d.resource_type, d.resource_id)
            => /\ r.status = HTTP_404_NOT_FOUND
               /\ r.status \notin {HTTP_409_CONFLICT, HTTP_500_INTERNAL_SERVER_ERROR}
               /\ r.bookings = bookings
               /\ r.next_id = next_id
               /\ r.booking = None

\* The last create named an unknown resource and was answered 404 while the
\* store held a booking.
C20_Witness ==
    /\ last.op = "create"
    /\ last.status = HTTP_404_NOT_FOUND
    /\ bookings # {}

\* ----------------------------------------------------------- store faults
\* C21: a create that reaches the insert (without a fault of the store it
\* is answered 201) and meets the store failing at the insert or commit is
\* answered 500, which is neither 404 nor 409, and no booking of that
\* request is in the store afterwards.
C21_StoreFaultRollsBack ==
    \A d \in ValidCreates, u \in Callers :
        LET ok == create_booking(bookings, next_id, u.user_id, d, FALSE)
            r == create_booking(bookings, next_id, u.user_id, d, TRUE)
        IN  ok.status = HTTP_201_CREATED
            => /\ r.status = HTTP_500_INTERNAL_SERVER_ERROR
               /\ r.status \notin {HTTP_404_NOT_FOUND, HTTP_409_CONFLICT}
               /\ r.bookings = bookings
               /\ r.booking = None

\* The last create was answered 500 while the store held a booking.
C21_Witness ==
    /\ last.op = "create"
    /\ last.status = HTTP_500_INTERNAL_SERVER_ERROR
    /\ last.booking_id = None
    /\ bookings # {}

\* ------------------------------------------------------ boundary validation
\* C22: a create whose end is not after its start, or whose start is before
\* the request time, or whose resource kind is neither desk nor room, is
\* answered with the validation error and the store stays as it was.
C22_BoundaryValidation ==
    [][ \A u \in Callers, d \in BoundaryCreates, fault \in BOOLEAN :
          ( /\ \/ d.end_time <= d.start_time
               \/ d.start_time < now
               \/ d.resource_type \notin {"desk", "room"}
            /\ routes_create_booking(u, d, fault) )
          => /\ last' = Response("create", HTTP_422_UNPROCESSABLE, None)
             /\ bookings' = bookings
             /\ next_id' = next_id ]_vars

\* A create was answered 422 after the clock had moved, over a store that
\* holds a booking.
C22_Witness ==
    /\ last.op = "create"
    /\ last.status = HTTP_422_UNPROCESSABLE
    /\ now > 0
    /\ bookings # {}

\* ------------------------------------------------------- absent bookings
\* C23: an update or a cancel that finishes on a booking id that is not in
\* the store is answered 404 and changes nothing, whatever other requests
\* did between its steps.
C23_AbsentIsNotFound ==
    [][ \A w \in Workers :
          ( /\ workers[w].pc # "done"
            /\ workers'[w].pc = "done"
            /\ get_booking_by_id(bookings, workers[w].booking_id) = {} )
          => /\ workers'[w].status = HTTP_404_NOT_FOUND
             /\ bookings' = bookings ]_vars

\* ---------------------------------------------- availability of the unknown
\* C24: the availability endpoint answers with a slot listing only for a
\* resource that the catalog holds; for any other kind and id the answer is
\* the not-found error.
C24_UnknownResourceNoListing ==
    /\ Answered => InCatalog(Answer.resource_type, Answer.resource_id)
    /\ availability.status = HTTP_200_OK => Answered

\* ----------------------------------------------------------------- reads
\* C25: the conflict query and the availability computation are read-only:
\* a step of either leaves every stored booking and the id sequence as they
\* were, whatever its arguments and its result.  (The catalog is constant.)
C25_ReadsChangeNothing ==
    [][ (last' # last \/ availability' # availability)
          => /\ bookings' = bookings
             /\ next_id' = next_id ]_vars

\* Both reads have answered over a store they had rows to find in: the
\* conflict query found a conflict and the availability lists booked slots.
C25_Witness ==
    /\ last.op = "check_booking_conflict"
    /\ last.status = "True"
    /\ Answered
    /\ Answer.booked_slots # << >>
    /\ bookings # {}

\* -------------------------------------------------------------- ownership
\* C26: an update, with a body the schema accepts, by a user who does not
\* own the booking, and a cancel by a user who neither owns it nor is an
\* admin, is answered 403 and leaves the store as it was.
C26_OwnershipGate ==
    [][ \A u \in UserTable, b \in bookings :
          (b.user_id # u.user_id /\ last'.booking_id = Some(b.booking_id))
          => /\ last'.op = "update"
                => \A d \in OwnershipUpdates :
                      ( /\ BookingUpdate_end_time_must_be_after_start_time(d)
                        /\ routes_update_booking(u, b.booking_id, d) )
                      => /\ last'.status = HTTP_403_FORBIDDEN
                         /\ bookings' = bookings
             /\ (last'.op = "cancel" /\ ~u.is_admin)
                => ( routes_cancel_booking(u, b.booking_id)
                     => /\ last'.status = HTTP_403_FORBIDDEN
                        /\ bookings' = bookings ) ]_vars

\* A request on a stored booking was answered 403 while the store held
\* bookings of two owners.
C26_Witness ==
    /\ last.status = HTTP_403_FORBIDDEN
    /\ get_booking_by_id(bookings, Val(last.booking_id)) # {}
    /\ \E a, b \in bookings : a.user_id # b.user_id

\* ------------------------------------------- availability and conflicts
\* C27: availability and the conflict query agree: when the answer lists
\* label L as available for the resource on day D, the conflict query for
\* the interval [D L, D L + 30 minutes) on that resource returns false.
C27_AvailableMeansNoConflict ==
    Answered =>
      \A i \in DOMAIN Answer.available_slots :
        LET s == Answer.date * 1440 + LabelMinutes(Answer.available_slots[i])
        IN  ~check_booking_conflict(bookings, Answer.resource_type,
                                    Answer.resource_id, s, s + 30, None)

\* ------------------------------------------------------ cancelling frees
\* The create body that asks for the interval and the resource of row b.
BodyOf(b) ==
    [ resource_type |-> resource_type(b), resource_id |-> resource_id(b),
      start_time |-> b.start_time, end_time |-> b.end_time ]

\* C28: after a cancel of booking R succeeded, a valid create for R's
\* former interval on R's resource is not answered 409 because of R: it
\* succeeds whenever no other stored booking of the resource overlaps the
\* interval.
C28_CancelFreesInterval ==
    [][ \A b \in bookings :
          ( /\ last'.op = "cancel"
            /\ last'.status = HTTP_204_NO_CONTENT
            /\ last'.booking_id = Some(b.booking_id) )
          => LET d == BodyOf(b)
                 r == create_booking(bookings', next_id', b.user_id, d, FALSE)
             IN  ( /\ BookingCreateValid(d, now')
                   /\ \A c \in RowsOf(bookings', d.resource_type, d.resource_id) :
                         ~Overlap(c.start_time, c.end_time,
                                  d.start_time, d.end_time) )
                 => r.status = HTTP_201_CREATED ]_vars

\* ----------------------------------------------------------- derived views
\* The number of views among is_upcoming, is_active and is_past that are
\* true of booking b at instant clock.
ViewsTrue(b, clock) ==
    Cardinality({v \in {"upcoming", "active", "past"} :
        \/ v = "upcoming" /\ is_upcoming(b, clock)
        \/ v = "active" /\ is_active(b, clock)
        \/ v = "past" /\ is_past(b, clock)})

\* C29: at every instant, exactly one of is_upcoming, is_active and is_past
\* is true of a confirmed booking with start < end, and neither is_active
\* nor is_upcoming is true of a pending booking.
C29_ViewsPartition ==
    \A b \in bookings :
        /\ (~b.pending /\ b.start_time < b.end_time) => ViewsTrue(b, now) = 1
        /\ b.pending => (~is_active(b, now) /\ ~is_upcoming(b, now))

\* The clock stands at the start of a confirmed booking while a pending
\* booking of the room is under way.
C29_Witness ==
    /\ \E b \in bookings :
          ~b.pending /\ b.start_time = now /\ b.start_time < b.end_time
    /\ \E b \in bookings :
          b.pending /\ b.start_time <= now /\ now <= b.end_time

\* ------------------------------------------------------- resource columns
\* C30: every stored booking references exactly one resource (exactly one
\* of desk_id and room_id is set), and a request never changes the desk_id,
\* room_id or user_id of a booking that stays stored.
C30_ExactlyOneResource ==
    [][ /\ \A b \in bookings' : (b.desk_id = None) # (b.room_id = None)
        /\ \A a \in bookings, b \in bookings' :
              a.booking_id = b.booking_id
              => /\ b.desk_id = a.desk_id
                 /\ b.room_id = a.room_id
                 /\ b.user_id = a.user_id ]_vars

\* An update succeeded on a store that holds a booking of a desk and a
\* booking of a room.
C30_Witness ==
    /\ last.op = "update"
    /\ last.status = HTTP_200_OK
    /\ \E b \in bookings : b.desk_id # None
    /\ \E b \in bookings : b.room_id # None

====
